---- MODULE Spec2Model ----
(***************************************************************************)
(* FunctionArrayDistinct (dbms/src/Functions/arrayDistinct.cpp).           *)
(*                                                                         *)
(* One behaviour is one planning + execution of arrayDistinct over one     *)
(* block: getReturnTypeImpl resolves the type (or throws), executeImpl     *)
(* unwraps the nullable layer and dispatches, and the selected strategy    *)
(* (executeNumber<T>, executeString or executeHashed) walks the rows.      *)
(* The loops are stepped one iteration at a time.  Source positions are    *)
(* 0-based as in the code; TLA+ sequences are 1-based, hence the "+ 1".    *)
(***************************************************************************)
EXTENDS Integers, Sequences, FiniteSets, TLC

\* Largest number of elements in the flattened data buffer of a block.
MaxLen == 3
\* Largest number of rows (entries of the offsets array) of a block.
MaxRows == 3

----------------------------------------------------------------------------
(* Types, columns and values *)

\* static constexpr auto name
name == "arrayDistinct"

\* The numeric instantiations executeImpl tries, in its order.
NumericTypes ==
    << "UInt8", "UInt16", "UInt32", "UInt64", "Int8", "Int16", "Int32",
       "Int64", "Float32", "Float64" >>

\* Element types the blocks under analysis are drawn from: one that an early
\* executeNumber<T> claims, one that a late one claims, the string type and
\* a type no specific strategy claims.
BaseTypes == { "UInt8", "Int64", "String", "FixedString(2)" }

\* A data type: base, Nullable(base), Array(base) or Array(Nullable(base)).
DataTypes == [array : BOOLEAN, nullable : BOOLEAN, base : BaseTypes]

\* IDataType::getName()
getName(type) ==
    LET inner == IF type.nullable THEN << "Nullable(", type.base, ")" >>
                 ELSE << type.base >>
    IN  IF type.array THEN << "Array(" >> \o inner \o << ")" >> ELSE inner

\* Element values of a column of the given base type.  Strings are byte
\* sequences (the empty string and one with an embedded zero byte included).
Values(base) ==
    CASE base = "UInt8" -> { 0, 255 }
      [] base = "Int64" -> { -1, 0 }
      [] base = "String" -> { << >>, << 97, 0 >> }
      [] base = "FixedString(2)" -> { << 0, 0 >>, << 0, 1 >> }

\* The concrete column class that stores elements of a base type.
ColumnOf(base) ==
    IF \E k \in 1 .. Len(NumericTypes) : NumericTypes[k] = base
    THEN << "ColumnVector", base >>
    ELSE IF base = "String" THEN << "ColumnString" >>
         ELSE << "ColumnFixedString" >>

\* checkAndGetColumn<ColumnVector<T>>(&src_data) != nullptr
executeNumberClaims(T, column) == column = << "ColumnVector", T >>

\* checkAndGetColumn<ColumnString>(&src_data) != nullptr
executeStringClaims(column) == column = << "ColumnString" >>

\* The || chain of executeImpl: the first strategy that claims the column.
Dispatch(column) ==
    IF \E k \in 1 .. Len(NumericTypes) :
           executeNumberClaims(NumericTypes[k], column)
    THEN "number"
    ELSE IF executeStringClaims(column) THEN "string" ELSE "hashed"

\* Range of the content hash, narrowed from 2^128 values so that collisions
\* between the few values of a block exist.
Hashes == { 0, 1 }

\* The content hash is some function of the element's content: every such
\* function over the values of the type, colliding or not.
HashFunctions(base) == [Values(base) -> Hashes]

\* Flattened data buffers of at most MaxLen elements.
DataBuffers(base) == UNION { [1 .. n -> Values(base)] : n \in 0 .. MaxLen }

\* Null bitmaps (UInt8 per element) parallel to a data buffer of length n.
NullMaps(n) == [1 .. n -> { 0, 1 }]

\* ColumnArray offsets: cumulative, non-decreasing, one per row, the last one
\* equal to the data length (no rows: no data).
OffsetsFor(n) ==
    UNION { { o \in [1 .. r -> 0 .. n] :
                /\ \A k \in 1 .. r - 1 : o[k] <= o[k + 1]
                /\ IF r = 0 THEN n = 0 ELSE o[r] = n }
            : r \in 0 .. MaxRows }

----------------------------------------------------------------------------
VARIABLES
    arg_type,         \* arguments[0]: the type of the sole argument
    src_data,         \* *inner_col: the nested values, flattened
    src_null_map,     \* nullable_col->getNullMapColumn() (<< >> if absent)
    src_offsets,      \* array->getOffsets()
    hash,             \* SipHash::get128 over updateHashWithValue, as a function
    pc,               \* where the call is
    return_type,      \* block.getByPosition(result).type
    exception,        \* the Exception thrown, if any
    nullable_col,     \* nullable_col != nullptr
    strategy,         \* the strategy that claimed the column
    res_data,         \* res.getData()
    res_offsets,      \* res.getOffsets()
    set,              \* the ClearableHashSet of the running strategy
    i,                \* row index
    j,                \* flattened position
    prev_src_offset,
    curr_src_offset,
    res_offset,
    res_from,         \* history: the source position each res_data element
                      \* was copied from
    mode,             \* which call this is: the first one or a follow-up
    first_data,       \* res_data of the first call
    first_offsets,    \* res_offsets of the first call
    removed           \* row index removed for the follow-up call (-1: none)

input == << arg_type, src_data, src_null_map, src_offsets, hash >>
call == << pc, return_type, exception, nullable_col, strategy, res_data,
           res_offsets, set, i, j, prev_src_offset, curr_src_offset,
           res_offset, res_from >>
follow == << mode, first_data, first_offsets, removed >>
vars == << input, call, follow >>

NoType == [array |-> FALSE, nullable |-> FALSE, base |-> "none"]
NoException == [code |-> "none", message |-> << >>]

\* State of a call that has not started.
Fresh ==
    /\ pc = "resolve"
    /\ return_type = NoType
    /\ exception = NoException
    /\ nullable_col = FALSE
    /\ strategy = "none"
    /\ res_data = << >>
    /\ res_offsets = << >>
    /\ set = {}
    /\ i = 0
    /\ j = 0
    /\ prev_src_offset = 0
    /\ curr_src_offset = 0
    /\ res_offset = 0
    /\ res_from = << >>

\* A block of Array(T) or Array(Nullable(T)), or an argument that is no array.
InitInput(hashes_of_all_types) ==
    /\ arg_type \in DataTypes
    /\ IF arg_type.array
       THEN /\ src_data \in DataBuffers(arg_type.base)
            /\ src_offsets \in OffsetsFor(Len(src_data))
            /\ src_null_map \in IF arg_type.nullable
                                THEN NullMaps(Len(src_data))
                                ELSE { << >> }
       ELSE /\ src_data = << >>
            /\ src_offsets = << >>
            /\ src_null_map = << >>
    /\ hash \in IF /\ arg_type.array
                      /\ \/ hashes_of_all_types
                         \/ Dispatch(ColumnOf(arg_type.base)) = "hashed"
                THEN HashFunctions(arg_type.base)
                ELSE { [v \in Values(arg_type.base) |-> 0] }

\* The first call has no predecessor.
FirstCall ==
    /\ mode = "first"
    /\ first_data = << >>
    /\ first_offsets = << >>
    /\ removed = -1

Init == InitInput(FALSE) /\ Fresh /\ FirstCall

----------------------------------------------------------------------------
(* The call *)

\* Fault: the nested type is returned as it is, removeNullable left out.
getReturnTypeImplKeepsNullable ==
    /\ pc = "resolve"
    /\ \/ /\ ~arg_type.array
          /\ exception' =
                 [code |-> "ILLEGAL_TYPE_OF_ARGUMENT",
                  message |-> << "Argument for function ", name,
                                 " must be array but it ", " has type " >>
                              \o getName(arg_type) \o << "." >>]
          /\ pc' = "error"
          /\ UNCHANGED return_type
       \/ /\ arg_type.array
          /\ return_type' = arg_type
          /\ pc' = "execute"
          /\ UNCHANGED exception
    /\ UNCHANGED << input, follow, nullable_col, strategy, res_data,
                    res_offsets, set, i, j, prev_src_offset, curr_src_offset,
                    res_offset, res_from >>

\* getReturnTypeImpl: a non-array argument throws, an array argument gives
\* Array(removeNullable(nested)).
getReturnTypeImpl ==
    /\ pc = "resolve"
    /\ \/ /\ ~arg_type.array
          /\ exception' =
                 [code |-> "ILLEGAL_TYPE_OF_ARGUMENT",
                  message |-> << "Argument for function ", name,
                                 " must be array but it ", " has type " >>
                              \o getName(arg_type) \o << "." >>]
          /\ pc' = "error"
          /\ UNCHANGED return_type
       \/ /\ arg_type.array
          /\ return_type' =
                 [array |-> TRUE, nullable |-> FALSE, base |-> arg_type.base]
          /\ pc' = "execute"
          /\ UNCHANGED exception
    /\ UNCHANGED << input, follow, nullable_col, strategy, res_data,
                    res_offsets, set, i, j, prev_src_offset, curr_src_offset,
                    res_offset, res_from >>

\* The locals a strategy starts with: an empty set, both running offsets 0.
StrategyEntry ==
    /\ set' = {}
    /\ prev_src_offset' = 0
    /\ res_offset' = 0
    /\ i' = 0
    /\ j' = 0
    /\ curr_src_offset' = 0

\* executeImpl up to the entry of the strategy that claims the column: a new
\* result column of the return type, the nullable layer unwrapped.
executeImpl ==
    /\ pc = "execute"
    /\ res_data' = << >>
    /\ res_offsets' = << >>
    /\ res_from' = << >>
    /\ nullable_col' = arg_type.nullable
    /\ strategy' = Dispatch(ColumnOf(arg_type.base))
    /\ StrategyEntry
    /\ pc' = "row"
    /\ UNCHANGED << input, follow, return_type, exception >>

\* Fault: the element loop starts one position late.
RowBeginSkipsFirst ==
    /\ pc = "row"
    /\ i < Len(src_offsets)
    /\ set' = {}
    /\ curr_src_offset' = src_offsets[i + 1]
    /\ j' = prev_src_offset + 1
    /\ pc' = "elem"
    /\ UNCHANGED << input, follow, return_type, exception, nullable_col,
                    strategy, res_data, res_offsets, i, prev_src_offset,
                    res_offset, res_from >>

\* Fault: set.clear() left out, the set lives on from row to row.
RowBeginNoClear ==
    /\ pc = "row"
    /\ i < Len(src_offsets)
    /\ curr_src_offset' = src_offsets[i + 1]
    /\ j' = prev_src_offset
    /\ pc' = "elem"
    /\ UNCHANGED << input, follow, return_type, exception, nullable_col,
                    strategy, res_data, res_offsets, i, prev_src_offset,
                    res_offset, res_from, set >>

\* Head of the row loop: another row; clear the set and take its range.
RowBegin ==
    /\ pc = "row"
    /\ i < Len(src_offsets)
    /\ set' = {}
    /\ curr_src_offset' = src_offsets[i + 1]
    /\ j' = prev_src_offset
    /\ pc' = "elem"
    /\ UNCHANGED << input, follow, return_type, exception, nullable_col,
                    strategy, res_data, res_offsets, i, prev_src_offset,
                    res_offset, res_from >>

\* nullable_col && (*src_null_map)[j]
IsNullAt(pos) == nullable_col /\ src_null_map[pos + 1] # 0

\* What an element step leaves alone.
ElemFrame ==
    UNCHANGED << input, follow, return_type, exception, nullable_col,
                 strategy, res_offsets, i, prev_src_offset, curr_src_offset,
                 res_offset, pc >>

\* Fault: the null bitmap is not consulted.
executeNumberNoNullCheck ==
    /\ pc = "elem"
    /\ strategy = "number"
    /\ j < curr_src_offset
    /\ IF src_data[j + 1] \notin set
       THEN /\ res_data' = Append(res_data, src_data[j + 1])
            /\ res_from' = Append(res_from, j)
            /\ set' = set \cup { src_data[j + 1] }
       ELSE UNCHANGED << res_data, res_from, set >>
    /\ j' = j + 1
    /\ ElemFrame

\* Fault: set.insert left out, no value is ever found in the set.
executeNumberNoInsert ==
    /\ pc = "elem"
    /\ strategy = "number"
    /\ j < curr_src_offset
    /\ IF IsNullAt(j)
       THEN UNCHANGED << res_data, res_from, set >>
       ELSE IF src_data[j + 1] \notin set
            THEN /\ res_data' = Append(res_data, src_data[j + 1])
                 /\ res_from' = Append(res_from, j)
                 /\ UNCHANGED set
            ELSE UNCHANGED << res_data, res_from, set >>
    /\ j' = j + 1
    /\ ElemFrame

\* Fault: the value under a null position is put into the set before the
\* position is skipped.
executeNumberNullIntoSet ==
    /\ pc = "elem"
    /\ strategy = "number"
    /\ j < curr_src_offset
    /\ IF IsNullAt(j)
       THEN /\ set' = set \cup { src_data[j + 1] }
            /\ UNCHANGED << res_data, res_from >>
       ELSE IF src_data[j + 1] \notin set
            THEN /\ res_data' = Append(res_data, src_data[j + 1])
                 /\ res_from' = Append(res_from, j)
                 /\ set' = set \cup { src_data[j + 1] }
            ELSE UNCHANGED << res_data, res_from, set >>
    /\ j' = j + 1
    /\ ElemFrame

\* One iteration of executeNumber's element loop: the key is the value.
executeNumber ==
    /\ pc = "elem"
    /\ strategy = "number"
    /\ j < curr_src_offset
    /\ IF IsNullAt(j)
       THEN UNCHANGED << res_data, res_from, set >>
       ELSE IF src_data[j + 1] \notin set
            THEN /\ res_data' = Append(res_data, src_data[j + 1])
                 /\ res_from' = Append(res_from, j)
                 /\ set' = set \cup { src_data[j + 1] }
            ELSE UNCHANGED << res_data, res_from, set >>
    /\ j' = j + 1
    /\ ElemFrame

\* ColumnString::getDataAt(j): a view (start, size) of the source bytes.
getDataAt(pos) == [data |-> pos, size |-> Len(src_data[pos + 1])]

\* The bytes a StringRef views.
BytesOf(str_ref) == SubSeq(src_data[str_ref.data + 1], 1, str_ref.size)

\* StringRef equality: same size and same bytes, wherever they lie.
StringRefEquals(a, b) == a.size = b.size /\ BytesOf(a) = BytesOf(b)

\* Fault: StringRefs are compared by where they point, not by what they view.
executeStringByIdentity ==
    /\ pc = "elem"
    /\ strategy = "string"
    /\ j < curr_src_offset
    /\ IF IsNullAt(j)
       THEN UNCHANGED << res_data, res_from, set >>
       ELSE LET str_ref == getDataAt(j)
            IN  IF ~\E key \in set : key = str_ref
                THEN /\ set' = set \cup { str_ref }
                     /\ res_data' = Append(res_data, BytesOf(str_ref))
                     /\ res_from' = Append(res_from, j)
                ELSE UNCHANGED << res_data, res_from, set >>
    /\ j' = j + 1
    /\ ElemFrame

\* One iteration of executeString's element loop: the key is the byte content
\* viewed by the StringRef; insertData copies the bytes.
executeString ==
    /\ pc = "elem"
    /\ strategy = "string"
    /\ j < curr_src_offset
    /\ IF IsNullAt(j)
       THEN UNCHANGED << res_data, res_from, set >>
       ELSE LET str_ref == getDataAt(j)
            IN  IF ~\E key \in set : StringRefEquals(key, str_ref)
                THEN /\ set' = set \cup { str_ref }
                     /\ res_data' = Append(res_data, BytesOf(str_ref))
                     /\ res_from' = Append(res_from, j)
                ELSE UNCHANGED << res_data, res_from, set >>
    /\ j' = j + 1
    /\ ElemFrame

\* Fault: the null bitmap is not consulted.
executeHashedNoNullCheck ==
    /\ pc = "elem"
    /\ strategy = "hashed"
    /\ j < curr_src_offset
    /\ IF hash[src_data[j + 1]] \notin set
       THEN /\ set' = set \cup { hash[src_data[j + 1]] }
            /\ res_data' = Append(res_data, src_data[j + 1])
            /\ res_from' = Append(res_from, j)
       ELSE UNCHANGED << res_data, res_from, set >>
    /\ j' = j + 1
    /\ ElemFrame

\* Fault: the set is keyed by the element itself, not by its hash.
executeHashedByValue ==
    /\ pc = "elem"
    /\ strategy = "hashed"
    /\ j < curr_src_offset
    /\ IF IsNullAt(j)
       THEN UNCHANGED << res_data, res_from, set >>
       ELSE IF src_data[j + 1] \notin set
            THEN /\ set' = set \cup { src_data[j + 1] }
                 /\ res_data' = Append(res_data, src_data[j + 1])
                 /\ res_from' = Append(res_from, j)
            ELSE UNCHANGED << res_data, res_from, set >>
    /\ j' = j + 1
    /\ ElemFrame

\* One iteration of executeHashed's element loop: the key is the 128-bit
\* content hash; insertFrom copies the element itself.
executeHashed ==
    /\ pc = "elem"
    /\ strategy = "hashed"
    /\ j < curr_src_offset
    /\ IF IsNullAt(j)
       THEN UNCHANGED << res_data, res_from, set >>
       ELSE IF hash[src_data[j + 1]] \notin set
            THEN /\ set' = set \cup { hash[src_data[j + 1]] }
                 /\ res_data' = Append(res_data, src_data[j + 1])
                 /\ res_from' = Append(res_from, j)
            ELSE UNCHANGED << res_data, res_from, set >>
    /\ j' = j + 1
    /\ ElemFrame

\* Fault: the row's count is stored, not added to the cumulative offset.
RowEndNotCumulative ==
    /\ pc = "elem"
    /\ j >= curr_src_offset
    /\ res_offset' = Cardinality(set)
    /\ res_offsets' = Append(res_offsets, res_offset')
    /\ prev_src_offset' = curr_src_offset
    /\ i' = i + 1
    /\ pc' = "row"
    /\ UNCHANGED << input, follow, return_type, exception, nullable_col,
                    strategy, res_data, set, j, curr_src_offset, res_from >>

\* End of a row: the cumulative offset grows by set.size().
RowEnd ==
    /\ pc = "elem"
    /\ j >= curr_src_offset
    /\ res_offset' = res_offset + Cardinality(set)
    /\ res_offsets' = Append(res_offsets, res_offset')
    /\ prev_src_offset' = curr_src_offset
    /\ i' = i + 1
    /\ pc' = "row"
    /\ UNCHANGED << input, follow, return_type, exception, nullable_col,
                    strategy, res_data, set, j, curr_src_offset, res_from >>

\* No row left: the strategy returns and the result column is stored.
Return ==
    /\ pc = "row"
    /\ i >= Len(src_offsets)
    /\ pc' = "done"
    /\ UNCHANGED << input, follow, return_type, exception, nullable_col,
                    strategy, res_data, res_offsets, set, i, j,
                    prev_src_offset, curr_src_offset, res_offset, res_from >>

Next ==
    \/ getReturnTypeImpl
    \/ executeImpl
    \/ RowBegin
    \/ executeNumber
    \/ executeString
    \/ executeHashed
    \/ RowEnd
    \/ Return

Spec == Init /\ [][Next]_vars

----------------------------------------------------------------------------
(* Follow-up calls: the function is invoked again, on an input derived from *)
(* the first call's input or output, and the first result is remembered.    *)

\* A new call starts at type resolution with nothing computed.
StartCall ==
    /\ pc' = "resolve"
    /\ return_type' = NoType
    /\ exception' = NoException
    /\ nullable_col' = FALSE
    /\ strategy' = "none"
    /\ res_data' = << >>
    /\ res_offsets' = << >>
    /\ res_from' = << >>
    /\ StrategyEntry

\* The first call is over; keep what it produced.
KeepFirst(m) ==
    /\ pc = "done"
    /\ mode = "first"
    /\ mode' = m
    /\ first_data' = res_data
    /\ first_offsets' = res_offsets

\* arrayDistinct(arrayDistinct(x)): the result column, of the return type
\* (no nullable layer, hence no null bitmap), is the next argument.
Reapply ==
    /\ KeepFirst("twice")
    /\ arg_type' = return_type
    /\ src_data' = res_data
    /\ src_offsets' = res_offsets
    /\ src_null_map' = << >>
    /\ StartCall
    /\ UNCHANGED << hash, removed >>

\* executeHashed called with the arguments executeImpl handed to the specific
\* strategy that claimed the column, and a new result column.
CrossHashed ==
    /\ KeepFirst("cross")
    /\ strategy \in { "number", "string" }
    /\ strategy' = "hashed"
    /\ res_data' = << >>
    /\ res_offsets' = << >>
    /\ res_from' = << >>
    /\ StrategyEntry
    /\ pc' = "row"
    /\ UNCHANGED << input, removed, return_type, exception, nullable_col >>

\* The same block with other underlying values at some null positions.
RerunVariant ==
    /\ KeepFirst("variant")
    /\ \E d \in DataBuffers(arg_type.base) :
          /\ Len(d) = Len(src_data)
          /\ d # src_data
          /\ \A p \in 1 .. Len(d) :
                d[p] # src_data[p] =>
                    arg_type.nullable /\ src_null_map[p] # 0
          /\ src_data' = d
    /\ StartCall
    /\ UNCHANGED << arg_type, src_null_map, src_offsets, hash, removed >>

\* The same block with one of its empty rows taken out.
RerunWithoutRow ==
    /\ KeepFirst("without_row")
    /\ \E r \in 1 .. Len(src_offsets) :
          /\ src_offsets[r] = (IF r = 1 THEN 0 ELSE src_offsets[r - 1])
          /\ src_offsets' =
                 SubSeq(src_offsets, 1, r - 1)
                     \o SubSeq(src_offsets, r + 1, Len(src_offsets))
          /\ removed' = r - 1
    /\ StartCall
    /\ UNCHANGED << arg_type, src_data, src_null_map, hash >>

NextTwice == Next \/ Reapply
NextCross == Next \/ CrossHashed
NextVariant == Next \/ RerunVariant
NextWithoutRow == Next \/ RerunWithoutRow

SpecTwice == Init /\ [][NextTwice]_vars
\* For the cross-strategy comparison the hash function matters for every type.
InitCross == InitInput(TRUE) /\ Fresh /\ FirstCall
SpecCross == InitCross /\ [][NextCross]_vars
SpecVariant == Init /\ [][NextVariant]_vars
SpecWithoutRow == Init /\ [][NextWithoutRow]_vars

----------------------------------------------------------------------------
(* Vocabulary of the properties: rows of the input block and of the result, *)
(* read off the columns without reference to how the strategies work.       *)

\* Cumulative offset before row r (rows are numbered from 1 here).
RowStart(offsets, r) == IF r = 1 THEN 0 ELSE offsets[r - 1]

\* The flattened positions (1-based) of input row r.
RowPositions(r) == (RowStart(src_offsets, r) + 1) .. src_offsets[r]

\* The position is marked null in the null bitmap of the argument.
MarkedNull(p) == arg_type.nullable /\ src_null_map[p] # 0

NonNullPositions(r) == { p \in RowPositions(r) : ~MarkedNull(p) }

InLen(r) == src_offsets[r] - RowStart(src_offsets, r)
OutLen(r) == res_offsets[r] - RowStart(res_offsets, r)

\* The result positions (1-based) of output row r.
OutPositions(r) == (RowStart(res_offsets, r) + 1) .. res_offsets[r]

\* Output row r as a sequence.
OutRow(r) == SubSeq(res_data, RowStart(res_offsets, r) + 1, res_offsets[r])

\* The elements of seq at the positions in S, in the order of seq.
Select(seq, S) ==
    LET F[k \in 0 .. Len(seq)] ==
            IF k = 0 THEN << >>
            ELSE IF k \in S THEN Append(F[k - 1], seq[k]) ELSE F[k - 1]
    IN  F[Len(seq)]

\* Non-null positions of row r whose value no earlier non-null position of
\* the row holds.
FirstOccurrences(r) ==
    { p \in NonNullPositions(r) :
        \A q \in NonNullPositions(r) : q < p => src_data[q] # src_data[p] }

\* Non-null positions of row r whose content hash no earlier non-null
\* position of the row has.
FirstOfHash(r) ==
    { p \in NonNullPositions(r) :
        \A q \in NonNullPositions(r) :
            q < p => hash[src_data[q]] # hash[src_data[p]] }

\* The result column has the rows [1 .. n] laid out over res_data.
RowsLaidOut(n) ==
    /\ Len(res_offsets) = n
    /\ \A r \in 1 .. n : RowStart(res_offsets, r) <= res_offsets[r]
    /\ IF n = 0 THEN Len(res_data) = 0 ELSE res_offsets[n] = Len(res_data)

\* The call ran to its end over the whole block.
Finished == pc = "done"

----------------------------------------------------------------------------
(* Properties *)

\* C1: under the numeric and the string strategy every output row is the
\* subsequence of its input row at the non-null positions whose value no
\* earlier non-null position of the row holds, in input order; each distinct
\* non-null value of a row occurs exactly once in the row's output, also when
\* another row holds it too.
C1_FirstOccurrenceOrder ==
    Finished /\ strategy \in { "number", "string" } =>
        /\ RowsLaidOut(Len(src_offsets))
        /\ \A r \in 1 .. Len(src_offsets) :
              /\ OutRow(r) = Select(src_data, FirstOccurrences(r))
              /\ \A p \in NonNullPositions(r) :
                    Cardinality({ k \in OutPositions(r) :
                                    res_data[k] = src_data[p] }) = 1

\* A finished numeric or string call over two rows: the first row holds one
\* value twice, the second row holds that value again.
C1_Witness ==
    /\ Finished
    /\ mode = "first"
    /\ strategy \in { "number", "string" }
    /\ Len(src_offsets) = 2
    /\ src_offsets[1] = 2
    /\ src_offsets[2] = 3
    /\ ~arg_type.nullable
    /\ src_data[1] = src_data[2]
    /\ src_data[3] = src_data[2]
    /\ res_offsets = << 1, 2 >>

\* C2: under every strategy no output element comes from a position marked
\* null, a row's output count is at most the number of its non-null
\* positions, and a row whose positions are all null has an empty output row.
C2_NullElimination ==
    /\ Len(res_from) = Len(res_data)
    /\ \A k \in 1 .. Len(res_from) :
          /\ res_from[k] + 1 \in 1 .. Len(src_data)
          /\ ~MarkedNull(res_from[k] + 1)
          /\ res_data[k] = src_data[res_from[k] + 1]
    /\ pc \in { "row", "done" } =>
          /\ RowsLaidOut(i)
          /\ \A r \in 1 .. i :
                /\ \A k \in OutPositions(r) : res_from[k] + 1 \in RowPositions(r)
                /\ OutLen(r) <= Cardinality(NonNullPositions(r))
                /\ NonNullPositions(r) = {} => OutLen(r) = 0

\* A finished call over a row of nulls only followed by a row with a null
\* between two non-null elements.
C2_Witness ==
    /\ Finished
    /\ mode = "first"
    /\ arg_type.nullable
    /\ Len(src_offsets) = 2
    /\ src_offsets[1] = 1
    /\ src_offsets[2] = 3
    /\ src_null_map = << 1, 1, 0 >>
    /\ res_offsets = << 0, 1 >>

\* The key a strategy deduplicates on: the content hash under the generic
\* strategy, the value itself under the numeric and the string strategy.
KeyAt(p) == IF strategy = "hashed" THEN hash[src_data[p]] ELSE src_data[p]

DistinctValues(r) == { src_data[p] : p \in NonNullPositions(r) }
DistinctKeys(r) == { KeyAt(p) : p \in NonNullPositions(r) }

\* C3 as stated: every output row is at most as long as its input row, and
\* as long exactly if the input row has no duplicate values and no nulls.
C3_AsStated ==
    Finished =>
        /\ RowsLaidOut(Len(src_offsets))
        /\ \A r \in 1 .. Len(src_offsets) :
              /\ OutLen(r) <= InLen(r)
              /\ OutLen(r) = InLen(r) <=>
                    /\ \A p, q \in RowPositions(r) :
                          p # q => src_data[p] # src_data[q]
                    /\ \A p \in RowPositions(r) : ~MarkedNull(p)

\* C3: every output row is at most as long as its input row, and as long
\* exactly if the input row has no null position and no two positions with
\* the same deduplication key (the value; the content hash under the generic
\* strategy).
C3_CardinalityBound ==
    Finished =>
        /\ RowsLaidOut(Len(src_offsets))
        /\ \A r \in 1 .. Len(src_offsets) :
              /\ OutLen(r) <= InLen(r)
              /\ OutLen(r) = InLen(r) <=>
                    /\ \A p, q \in RowPositions(r) :
                          p # q => KeyAt(p) # KeyAt(q)
                    /\ \A p \in RowPositions(r) : ~MarkedNull(p)

\* A finished call with a row kept whole (distinct keys, no null) and a row
\* shortened.
C3_Witness ==
    /\ Finished
    /\ mode = "first"
    /\ Len(src_offsets) = 2
    /\ src_offsets = << 2, 3 >>
    /\ res_offsets = << 2, 2 >>
    /\ arg_type.nullable

\* C5 as stated: between rows and at the end the result offsets are
\* non-decreasing, one per processed row (one per input row at the end), each
\* row's offset difference is the number of distinct non-null values of the
\* input row, and the last offset is the length of the result data.
C5_AsStated ==
    pc \in { "row", "done" } =>
        /\ RowsLaidOut(i)
        /\ i <= Len(src_offsets)
        /\ Finished => i = Len(src_offsets)
        /\ res_offset = Len(res_data)
        /\ \A r \in 1 .. i : OutLen(r) = Cardinality(DistinctValues(r))

\* C5: as stated, with each row's offset difference being the number of
\* distinct deduplication keys of the row's non-null elements (values; content
\* hashes under the generic strategy).
C5_WellFormedOffsets ==
    pc \in { "row", "done" } =>
        /\ RowsLaidOut(i)
        /\ i <= Len(src_offsets)
        /\ Finished => i = Len(src_offsets)
        /\ res_offset = Len(res_data)
        /\ \A r \in 1 .. i : OutLen(r) = Cardinality(DistinctKeys(r))

\* Between the second and the third row of a block whose first two rows
\* both produced elements.
C5_Witness ==
    /\ pc = "row"
    /\ mode = "first"
    /\ i = 2
    /\ Len(src_offsets) = 3
    /\ res_offsets = << 1, 2 >>
    /\ src_offsets[1] = 2

\* The sequence part occurs in seq as a contiguous run.
Carries(seq, part) ==
    \E a \in 1 .. Len(seq) - Len(part) + 1 :
        SubSeq(seq, a, a + Len(part) - 1) = part

\* C6: an argument that is no array ends type resolution with the type error
\* carrying the type's name, before any row is processed and with no result
\* column; an array argument resolves to the array of the non-nullable nested
\* type, which depends on the argument type only.
C6_TypeResolution ==
    /\ ~arg_type.array =>
          /\ pc \in { "resolve", "error" }
          /\ res_data = << >> /\ res_offsets = << >>
          /\ i = 0 /\ strategy = "none"
          /\ return_type = NoType
    /\ pc = "error" =>
          /\ ~arg_type.array
          /\ exception.code = "ILLEGAL_TYPE_OF_ARGUMENT"
          /\ Carries(exception.message, getName(arg_type))
    /\ arg_type.array /\ pc # "resolve" =>
          /\ exception = NoException
          /\ return_type.array
          /\ ~return_type.nullable
          /\ return_type.base = arg_type.base

\* Type resolution has failed on a Nullable(T) argument.
C6_Witness ==
    /\ pc = "error"
    /\ arg_type.nullable
    /\ exception.message[Len(exception.message)] = "."

\* C8: under the generic strategy the elements copied for a row are exactly
\* those at the non-null positions whose content hash no earlier non-null
\* position of the row has, in input order; what is copied is the element,
\* and the row's count is the number of elements copied.
C8_HashedKeepsFirstOfHash ==
    strategy = "hashed" /\ pc \in { "row", "done" } =>
        /\ RowsLaidOut(i)
        /\ Len(res_from) = Len(res_data)
        /\ \A r \in 1 .. i :
              /\ { res_from[k] + 1 : k \in OutPositions(r) } = FirstOfHash(r)
              /\ OutLen(r) = Cardinality(FirstOfHash(r))
              /\ \A k, l \in OutPositions(r) :
                    k < l => res_from[k] < res_from[l]
              /\ \A k \in OutPositions(r) :
                    res_data[k] = src_data[res_from[k] + 1]

\* A finished generic call over one row of two different non-null elements
\* with the same hash: the earlier one alone is in the result.
C8_Witness ==
    /\ Finished
    /\ mode = "first"
    /\ strategy = "hashed"
    /\ src_offsets = << 2 >>
    /\ ~arg_type.nullable
    /\ src_data[1] # src_data[2]
    /\ hash[src_data[1]] = hash[src_data[2]]
    /\ res_data = << src_data[1] >>
    /\ res_offsets = << 1 >>

\* C4: applying the function to its own result, whose type has no nullable
\* layer, gives the same data and the same offsets again.
C4_Idempotence ==
    /\ mode = "twice" => ~arg_type.nullable /\ src_null_map = << >>
    /\ mode = "twice" /\ pc \in { "row", "elem", "done" } => ~nullable_col
    /\ mode = "twice" /\ Finished =>
          /\ res_data = first_data
          /\ res_offsets = first_offsets

\* The second call has finished on a first result of two non-empty rows that
\* hold the same value.
C4_Witness ==
    /\ mode = "twice"
    /\ Finished
    /\ first_offsets = << 2, 3 >>
    /\ first_data[1] = first_data[3]
    /\ res_offsets = << 2, 3 >>

\* The content hash separates the different values at the non-null positions
\* of the block.
CollisionFree ==
    \A p, q \in 1 .. Len(src_data) :
        /\ ~MarkedNull(p)
        /\ ~MarkedNull(q)
        /\ src_data[p] # src_data[q]
        => hash[src_data[p]] # hash[src_data[q]]

\* C7: on a block of a numeric or string type whose values the hash
\* separates, the generic strategy gives the data and the offsets of the
\* type-specific strategy.
C7_CrossStrategy ==
    mode = "cross" /\ Finished /\ CollisionFree =>
        /\ strategy = "hashed"
        /\ res_data = first_data
        /\ res_offsets = first_offsets

\* The generic strategy has finished on a numeric or string row a, b, a with
\* different hashes for a and b.
C7_Witness ==
    /\ mode = "cross"
    /\ Finished
    /\ CollisionFree
    /\ src_offsets = << 3 >>
    /\ ~arg_type.nullable
    /\ src_data[1] # src_data[2]
    /\ src_data[3] = src_data[1]
    /\ Len(res_data) = 2

\* seq without its element at (1-based) position r.
Without(seq, r) == SubSeq(seq, 1, r - 1) \o SubSeq(seq, r + 1, Len(seq))

\* C9: an empty row, wherever it lies, appends nothing to the result data
\* and gets the cumulative offset of the row before it (0 for the first
\* row); taking the empty row out of the block leaves the result data as it
\* was and the result offsets as they were but for the entry of that row.
C9_EmptyRows ==
    /\ pc \in { "row", "done" } =>
          /\ RowsLaidOut(i)
          /\ \A r \in 1 .. i :
                InLen(r) = 0 => res_offsets[r] = RowStart(res_offsets, r)
    /\ pc = "elem" /\ curr_src_offset = prev_src_offset =>
          /\ set = {}
          /\ Len(res_data) = res_offset
    /\ mode = "without_row" /\ Finished =>
          /\ res_data = first_data
          /\ Len(first_offsets) = Len(res_offsets) + 1
          /\ res_offsets = Without(first_offsets, removed + 1)

\* The call on the block without its empty middle row has finished; the rows
\* before and after it both produce an element.
C9_Witness ==
    /\ mode = "without_row"
    /\ Finished
    /\ removed = 1
    /\ first_offsets = << 1, 1, 2 >>
    /\ res_offsets = << 1, 2 >>

\* The source positions whose keys the working set may hold while row i is
\* being walked: the non-null positions of the row before position j.
SeenPositions ==
    { p \in (prev_src_offset + 1) .. j : ~MarkedNull(p) }

\* C10: the values under null positions do not reach the result: a block
\* that differs from another at null positions only gives the same data and
\* offsets; the working set holds keys of non-null positions only; and every
\* non-null element's value is in its row's output under the numeric and the
\* string strategy, whatever lies under the null positions before it.
C10_NullValuesIgnored ==
    /\ mode = "variant" /\ Finished =>
          /\ res_data = first_data
          /\ res_offsets = first_offsets
    /\ pc = "elem" =>
          CASE strategy = "number" ->
                   set \subseteq { src_data[p] : p \in SeenPositions }
            [] strategy = "string" ->
                   { key.data + 1 : key \in set } \subseteq SeenPositions
            [] strategy = "hashed" ->
                   set \subseteq { hash[src_data[p]] : p \in SeenPositions }
    /\ Finished /\ strategy \in { "number", "string" } =>
          /\ RowsLaidOut(Len(src_offsets))
          /\ \A r \in 1 .. Len(src_offsets) :
                \A p \in NonNullPositions(r) :
                    \E k \in OutPositions(r) : res_data[k] = src_data[p]

\* The call on the variant has finished: the row is a null followed by a
\* non-null element, and the first block had the non-null element's value
\* under the null.
C10_Witness ==
    /\ mode = "variant"
    /\ Finished
    /\ strategy \in { "number", "string" }
    /\ src_offsets = << 2 >>
    /\ src_null_map = << 1, 0 >>
    /\ src_data[1] # src_data[2]
    /\ res_data = << src_data[2] >>
    /\ first_data = res_data

====
